---- MODULE Spec2Model ----
(***************************************************************************)
(* The instance dispatch runtime of html5/runtime/init.js.                 *)
(*                                                                         *)
(* The runtime is synchronous, but every service hook and every backend    *)
(* method it calls is foreign code: it may return, throw, or call back     *)
(* into the public method table before it returns.  A public call is       *)
(* therefore a frame on `stack`; one action runs the handler's own code    *)
(* from one foreign call to the next.                                      *)
(***************************************************************************)
EXTENDS Integers, Sequences, FiniteSets, TLC

(* ------------------------------ bounds -------------------------------- *)
\* deepest nesting of public calls (1 = no re-entrant call)
MaxDepth == 2
\* number of records the registry may create in one behaviour
MaxTime == 3
\* longest bundle text, in lexemes, the version detector is checked on
MaxLen == 4

(* --------------------------- value domains ---------------------------- *)
\* JavaScript's undefined, and a property that is not there at all
Undefined == "undefined"
Absent == "absent"
\* the Error value `new Error('invalid instance id "..."')`
InvalidInstanceId == "InvalidInstanceId"
\* a TypeError raised by calling a method the receiver does not have
TypeError == "TypeError"
\* an exception raised by foreign code
ForeignError == "ForeignError"

Ids == {"1", "2"}

\* what a backend method may return: a value, or an Error value
BackendResults == {"ok", "err"}

EmptyObject == [k \in {} |-> 0]
\* what a service's create hook may return (undefined merges like {})
HookResults == {EmptyObject, [a |-> 1], [a |-> 2, b |-> 1]}

(* ------------------------- the version detector ------------------------ *)
\* Bundle text, as a sequence of lexemes:
\*   "sp"  a space             "tab" other white space that is no line end
\*   "nl"  a line end (\r?\n)  "//"  two slashes
\*   "txt" any other text without line end
\*   "{..}" a brace-delimited text without an inner closing brace; what is
\*          between the braces is named by the lexeme (see JSONparse)
JsonTexts == {"{rax}", "{vue}", "{weex}", "{nover}", "{empty}", "{bad}"}
Lexemes == {"sp", "tab", "nl", "//", "txt"} \cup JsonTexts

\* JSON.parse of a brace text: an object, or a SyntaxError
SyntaxError == [threw |-> TRUE, framework |-> Undefined, version |-> Undefined]
JsonObject(f, v) == [threw |-> FALSE, framework |-> f, version |-> v]
JSONparse(text) ==
    CASE text = "{rax}"   -> JsonObject("Rax", "1.0")
      [] text = "{vue}"   -> JsonObject("Vue", "2.0")
      [] text = "{weex}"  -> JsonObject("Weex", "0.4")
      [] text = "{nover}" -> JsonObject("Rax", Undefined)
      [] text = "{empty}" -> JsonObject(Undefined, Undefined)
      [] OTHER            -> SyntaxError

\* the first position >= i of `code` whose lexeme is not in `skip`
RECURSIVE SkipWhile(_, _, _)
SkipWhile(code, i, skip) ==
    IF i <= Len(code) /\ code[i] \in skip
    THEN SkipWhile(code, i + 1, skip)
    ELSE i

At(code, i) == IF i <= Len(code) THEN code[i] ELSE Absent

\* a pattern that does not let a line end come before the comment
versionRegExp_firstLineOnly(code) ==
    LET i1 == SkipWhile(code, 1, {"sp", "tab"})
        i2 == SkipWhile(code, i1 + 1, {"sp"})
        i3 == SkipWhile(code, i2 + 1, {"sp"})
    IN  IF /\ At(code, i1) = "//"
           /\ At(code, i2) \in JsonTexts
           /\ At(code, i3) = "nl"
        THEN At(code, i2)
        ELSE Absent

\* /^\s*\/\/ *(\{[^}]*\}) *\r?\n/ : the captured brace text, or Absent
versionRegExp(code) ==
    LET i1 == SkipWhile(code, 1, {"sp", "tab", "nl"})
        i2 == SkipWhile(code, i1 + 1, {"sp"})
        i3 == SkipWhile(code, i2 + 1, {"sp"})
    IN  IF /\ At(code, i1) = "//"
           /\ At(code, i2) \in JsonTexts
           /\ At(code, i3) = "nl"
        THEN At(code, i2)
        ELSE Absent

\* the descriptor of a bundle; detected = FALSE is `info` left undefined
NoDescriptor == [detected |-> FALSE, framework |-> Undefined, version |-> Undefined]
checkVersion(code) ==
    LET result == versionRegExp(code)
    IN  IF result # Absent /\ ~JSONparse(result).threw
        THEN [detected |-> TRUE,
              framework |-> JSONparse(result).framework,
              version |-> JSONparse(result).version]
        ELSE NoDescriptor

\* the bundles createInstance is called with
Bundles ==
    { <<"//", "sp", "{rax}", "nl", "txt">>,
      <<"//", "{vue}", "sp", "nl", "txt">>,
      <<"//", "{nover}", "nl">>,
      <<"//", "{bad}", "nl", "txt">>,
      <<"//", "{empty}", "nl">>,
      <<"nl", "tab", "//", "{rax}", "nl", "txt">>,
      <<"//", "{rax}">>,
      <<"txt", "nl", "//", "{rax}", "nl">> }


(* ------------------------------ the state ------------------------------ *)
\* the method names of the public method table
InitMethods == {"registerComponents", "registerModules", "registerMethods"}
InstanceMethods == {"destroyInstance", "refreshInstance", "receiveTasks", "getRoot"}
BackendMethods == {"init", "createInstance"} \cup InitMethods \cup InstanceMethods

\* config.frameworks as given to init, in the object's enumeration order:
\* each backend with the methods it implements
FrameworkConfigs ==
    { << [name |-> "Weex", methods |-> BackendMethods],
         [name |-> "Rax",
          methods |-> BackendMethods \ {"destroyInstance", "registerModules"}] >>,
      << [name |-> "Rax", methods |-> BackendMethods \ {"getRoot"}],
         [name |-> "Weex", methods |-> BackendMethods \ {"registerMethods"}] >>,
      << [name |-> "Rax", methods |-> BackendMethods] >> }

\* the services of ./service, in registration order: each with the hooks
\* its options hold
ServiceConfigs ==
    { << [name |-> "s1", options |-> {"create", "refresh", "destroy"}],
         [name |-> "s2", options |-> {"refresh"}],
         [name |-> "s3", options |-> {"create", "destroy"}] >>,
      << [name |-> "s1", options |-> {"refresh"}] >> }

\* the other arguments of a call, passed on as they are
Args == {"a1", "a2"}
\* the first argument of registerComponents
ComponentArgs == {"notArray", "components"}

\* a config object: the caller's field k, and the two injected fields
ConfigValues == {"v1", "v2"}
EmptyConfig == [k |-> Absent, bundleVersion |-> Absent, env |-> Absent]
\* the reference that means "no config argument"
NoConfig == -1
\* the reference of the caller's config object
CallerRef == 0

VARIABLES
    frameworks,    \* the backend set stored by init
    services,      \* the registered services
    instanceMap,   \* id -> [framework, version, created], for the ids it holds
    now,           \* Date.now()
    callerConfig,  \* the content of the caller's config object
    configs,       \* reference -> content, for the config objects made
    received,      \* id -> the reference of the config its creation handed out
    stack,         \* the public calls in progress, innermost last
    lastLifecycle  \* id -> the last of createInstance and destroyInstance the
                   \* backends were called with for the id ("none": neither)

vars == <<frameworks, services, instanceMap, now, callerConfig, configs,
          received, stack, lastLifecycle>>

\* init(config): the backend set is stored; no instance exists
Init ==
    /\ frameworks \in FrameworkConfigs
    /\ services \in ServiceConfigs
    /\ instanceMap = [i \in {} |-> 0]
    /\ now = 0
    /\ callerConfig = [EmptyConfig EXCEPT !.k = "v1"]
    /\ configs = [r \in {} |-> 0]
    /\ received = [i \in Ids |-> NoConfig]
    /\ stack = <<>>
    /\ lastLifecycle = [i \in Ids |-> "none"]

(* ------------------------------- helpers ------------------------------- *)
FrameworkNames == {frameworks[j].name : j \in DOMAIN frameworks}

\* frameworks[name]
Framework(name) == CHOOSE fw \in {frameworks[j] : j \in DOMAIN frameworks} : fw.name = name

\* frameworks[name] && frameworks[name][methodName]
HasMethod(name, methodName) ==
    name \in FrameworkNames /\ methodName \in Framework(name).methods

Depth == Len(stack)
Top == stack[Depth]
Below == SubSeq(stack, 1, Depth - 1)

\* foreign code is running: the host (nothing in progress) or a hook or
\* backend method the innermost call is waiting for
ForeignRunning == IF Depth = 0 THEN TRUE ELSE Top.pc \in {"hook", "backend"}
CanCall == ForeignRunning /\ Depth < MaxDepth

\* this step has called a backend method: the innermost call, entered or
\* gone on by the step, waits for it
BackendCalled ==
    /\ stack' # stack
    /\ Len(stack') >= Len(stack)
    /\ stack'[Len(stack')].pc = "backend"

\* the backend calls of lines 65 and 111 are noted as they are made
Observe ==
    lastLifecycle' =
        IF BackendCalled /\ stack'[Len(stack')].method \in {"createInstance", "destroyInstance"}
        THEN [lastLifecycle EXCEPT ![stack'[Len(stack')].id] = stack'[Len(stack')].method]
        ELSE lastLifecycle

NoInfo == [framework |-> Undefined, version |-> Undefined, created |-> 0]

\* a public call: pc is "hook" or "backend" while it waits for foreign
\* code, "ended" when it has returned or thrown `result` (outcome); trace
\* lists the foreign code it has called, pre is the registry it was
\* entered with
Frame(method, id, args) ==
    [method |-> method, id |-> id, args |-> args, code |-> <<>>,
     pc |-> "entry", i |-> 0, info |-> NoInfo, config |-> NoConfig,
     serviceObjects |-> EmptyObject, result |-> Undefined, outcome |-> "",
     trace |-> <<>>, pre |-> instanceMap]

\* one call of foreign code, with what it was given; `returned` is <<>>
\* while it runs, then <<what it returned>> or <<ForeignError>>, thrown
Event(kind, target, method, id, args) ==
    [kind |-> kind, target |-> target, method |-> method, id |-> id,
     args |-> args, info |-> NoInfo, config |-> NoConfig,
     bundleVersion |-> Absent, serviceObjects |-> EmptyObject,
     returned |-> <<>>]

\* the call `f`, when the foreign code it waits for has given `value`
Given(f, value) == [f EXCEPT !.trace[Len(f.trace)].returned = <<value>>]

Deref(ref) == IF ref = CallerRef THEN callerConfig ELSE configs[ref]

\* the call `f` ended: by "return" or "throw", with `value`
Ended(f, outcome, value) ==
    [f EXCEPT !.pc = "ended", !.outcome = outcome, !.result = value]

\* the call `f` waiting for the foreign code of `event`
Waiting(f, pc, i, event) ==
    [f EXCEPT !.pc = pc, !.i = i, !.trace = Append(@, event)]

Complete(base, f, outcome, value) == stack' = Append(base, Ended(f, outcome, value))

Suspend(base, f, pc, i, event) == stack' = Append(base, Waiting(f, pc, i, event))

\* the first service at or after position `from` whose options hold `hook`
\* (0: none)
NextService(from, hook) ==
    LET S == {j \in from..Len(services) : hook \in services[j].options}
    IN  IF S = {} THEN 0 ELSE CHOOSE j \in S : \A k \in S : j <= k

\* a fan-out that does not look whether the backend has the method
NextFramework_unchecked(from, methodName) ==
    IF from <= Len(frameworks) THEN from ELSE 0

\* the first backend at or after position `from` that implements
\* `methodName` (0: none)
NextFramework(from, methodName) ==
    LET S == {j \in from..Len(frameworks) : methodName \in frameworks[j].methods}
    IN  IF S = {} THEN 0 ELSE CHOOSE j \in S : \A k \in S : j <= k

\* the config objects still referred to, when the calls in progress are
\* `frames` and the instances' configs are `refs`
Reachable(heap, frames, refs) ==
    LET used == {refs[id] : id \in DOMAIN refs}
                \cup {frames[d].config : d \in DOMAIN frames}
    IN  [r \in DOMAIN heap \cap used |-> heap[r]]

(* ---------------------------- createInstance --------------------------- *)
\* JSON.parse(JSON.stringify(object)): a new object; a property whose value
\* is undefined is dropped
JSONcopy(object) ==
    [f \in DOMAIN object |-> IF object[f] = Undefined THEN Absent ELSE object[f]]

\* global.WXEnvironment || {}, copied
WXEnvironment == "WXEnvironment"

\* a createInstance that does not look for a record of the id
IsFreshId_unchecked(id) == TRUE

\* a createInstance that takes an id once only
IsFreshId_onceOnly(id) == id \notin DOMAIN instanceMap /\ lastLifecycle[id] = "none"

\* `info = instanceMap[id]; if (!info)`
IsFreshId(id) == id \notin DOMAIN instanceMap

\* a record that keeps the descriptor's backend name, registered or not
InitInstanceInfo_noFallback(code) ==
    [framework |-> checkVersion(code).framework,
     version |-> checkVersion(code).version,
     created |-> now + 1]

\* lines 42-46: the record of a new instance
InitInstanceInfo(code) ==
    LET info == checkVersion(code)
    IN  [framework |-> IF info.framework \in FrameworkNames
                       THEN info.framework
                       ELSE "Weex",
         version |-> info.version,
         created |-> now + 1]

\* a createInstance that leaves the record out of the registry while the
\* hooks and the backend run
Insert_deferred(map, id, info) == map

\* line 47: instanceMap[id] = info
Insert(map, id, info) ==
    [j \in DOMAIN map \cup {id} |-> IF j = id THEN info ELSE map[j]]

\* a reference no config object has
NewRef == CHOOSE r \in 1..(Cardinality(DOMAIN configs) + 1) : r \notin DOMAIN configs

\* a config that is the caller's object itself, `config = config || {}`
InitInstanceConfig_noCopy(config, info) ==
    IF config = NoConfig
    THEN [ref |-> NewRef,
          caller |-> callerConfig,
          made |-> [r \in DOMAIN configs \cup {NewRef} |->
                      IF r = NewRef
                      THEN [EmptyConfig EXCEPT !.bundleVersion = info.version,
                                               !.env = WXEnvironment]
                      ELSE configs[r]]]
    ELSE [ref |-> config,
          caller |-> [callerConfig EXCEPT !.bundleVersion = info.version,
                                          !.env = WXEnvironment],
          made |-> configs]

\* lines 50-52: the config of a new instance, as
\* [ref, caller, made]: its reference, and the content of the caller's
\* object and of the objects made, after these lines
InitInstanceConfig(config, info) ==
    LET copy == JSONcopy(IF config = NoConfig THEN EmptyConfig ELSE Deref(config))
        new == [copy EXCEPT !.bundleVersion = info.version, !.env = WXEnvironment]
    IN  [ref |-> NewRef,
         caller |-> callerConfig,
         made |-> [r \in DOMAIN configs \cup {NewRef} |->
                      IF r = NewRef THEN new ELSE configs[r]]]

\* line 65: frameworks[info.framework].createInstance(id, code, config, data,
\* serviceObjects); `content` is what the config object holds now
CallBackendCreate(base, f, content) ==
    IF HasMethod(f.info.framework, "createInstance")
    THEN Suspend(base, f, "backend", 0,
                 [Event("backend", f.info.framework, "createInstance", f.id, f.args)
                    EXCEPT !.config = f.config,
                           !.bundleVersion = content.bundleVersion,
                           !.serviceObjects = f.serviceObjects])
    ELSE Complete(base, f, "throw", TypeError)

\* lines 57-65: the create hooks of the services from position `from` on,
\* then the backend
RunCreateHooks(base, f, from, content) ==
    LET j == NextService(from, "create")
    IN  IF j # 0
        THEN Suspend(base, f, "hook", j,
                     [Event("hook", services[j].name, "create", f.id, f.args)
                        EXCEPT !.info = f.info, !.config = f.config,
                               !.bundleVersion = content.bundleVersion])
        ELSE CallBackendCreate(base, f, content)

\* a merge that keeps the value a key already has
Assign_firstWins(serviceObjects, result) ==
    [key \in DOMAIN serviceObjects \cup DOMAIN result |->
        IF key \in DOMAIN serviceObjects THEN serviceObjects[key] ELSE result[key]]

\* Object.assign(serviceObjects, result)
Assign(serviceObjects, result) ==
    [key \in DOMAIN serviceObjects \cup DOMAIN result |->
        IF key \in DOMAIN result THEN result[key] ELSE serviceObjects[key]]

\* the config argument, as the call's frame keeps it
ConfigArg(config) == IF config = NoConfig THEN "noConfig" ELSE "callerConfig"

\* createInstance(id, code, config, data), up to its first foreign call;
\* `data` is handed to the backend as it is and left out
createInstance(id, code, config) ==
    /\ CanCall
    /\ IF IsFreshId(id)
       THEN /\ now < MaxTime
            /\ LET info == InitInstanceInfo(code)
                   cfg == InitInstanceConfig(config, info)
                   f == [Frame("createInstance", id, ConfigArg(config)) EXCEPT
                            !.code = code, !.info = info, !.config = cfg.ref]
               IN  /\ now' = info.created
                   /\ instanceMap' = Insert(instanceMap, id, info)
                   /\ callerConfig' = cfg.caller
                   /\ received' = [received EXCEPT ![id] = cfg.ref]
                   /\ RunCreateHooks(stack, f, 1,
                                     IF cfg.ref = CallerRef THEN cfg.caller
                                     ELSE cfg.made[cfg.ref])
                   /\ configs' = Reachable(cfg.made, stack', received')
       ELSE /\ Complete(stack, [Frame("createInstance", id, ConfigArg(config)) EXCEPT
                                   !.code = code],
                        "return", InvalidInstanceId)
            /\ UNCHANGED <<instanceMap, now, callerConfig, configs, received>>
    /\ UNCHANGED <<frameworks, services>>
    /\ Observe

(* ------------------------- instance-routed calls ----------------------- *)
\* a guard that looks for the record alone
IsRoutable_recordOnly(id) == id \in DOMAIN instanceMap

\* `info && frameworks[info.framework]`
IsRoutable(id) ==
    id \in DOMAIN instanceMap /\ instanceMap[id].framework \in FrameworkNames

\* line 111: frameworks[info.framework][methodName](...args)
CallBackend(f, methodName) ==
    IF HasMethod(f.info.framework, methodName)
    THEN Waiting(f, "backend", 0,
                 Event("backend", f.info.framework, methodName, f.id, f.args))
    ELSE Ended(f, "throw", TypeError)

\* the hook of the lifecycle method `methodName`
LifecycleHook(methodName) ==
    IF methodName = "refreshInstance" THEN "refresh" ELSE "destroy"

\* a removal that clears the registry
Delete_all(map, id) == [j \in {} |-> map[j]]

\* `delete instanceMap[id]`
Delete(map, id) == [j \in DOMAIN map \ {id} |-> map[j]]

\* lines 129-132, after the last hook: destroyInstance deletes the record;
\* the backend's result is returned.  With the record the instance's config
\* object is given up.
FinishLifecycle(base, f) ==
    /\ Complete(base, f, "return", f.result)
    /\ IF f.method = "destroyInstance"
       THEN /\ instanceMap' = Delete(instanceMap, f.id)
            /\ received' = [received EXCEPT ![f.id] = NoConfig]
            /\ configs' = Reachable(configs, stack', received')
       ELSE UNCHANGED <<instanceMap, received, configs>>

\* lines 114-132: the refresh or destroy hooks of the services from
\* position `from` on, then the end of the call
RunLifecycleHooks(base, f, from) ==
    LET j == NextService(from, LifecycleHook(f.method))
    IN  IF j # 0
        THEN /\ Suspend(base, f, "hook", j,
                        [Event("hook", services[j].name, LifecycleHook(f.method),
                               f.id, f.args) EXCEPT !.info = f.info])
             /\ UNCHANGED <<instanceMap, received, configs>>
        ELSE FinishLifecycle(base, f)

\* lines 112-132: the backend has returned `result`
AfterBackend(base, f, result) ==
    IF f.method \in {"refreshInstance", "destroyInstance"}
    THEN RunLifecycleHooks(base, [f EXCEPT !.result = result], 1)
    ELSE /\ Complete(base, f, "return", result)
         /\ UNCHANGED <<instanceMap, received, configs>>

\* a router that reads info.framework without looking whether info is there
genInstanceEnter_unguarded(methodName, id, args) ==
    IF id \notin DOMAIN instanceMap
    THEN Ended(Frame(methodName, id, args), "throw", TypeError)
    ELSE IF instanceMap[id].framework \in FrameworkNames
    THEN CallBackend([Frame(methodName, id, args) EXCEPT !.info = instanceMap[id]],
                     methodName)
    ELSE Ended(Frame(methodName, id, args), "return", InvalidInstanceId)

\* lines 108-111 and 134: the call, at its foreign call or ended
genInstanceEnter(methodName, id, args) ==
    IF IsRoutable(id)
    THEN CallBackend([Frame(methodName, id, args) EXCEPT !.info = instanceMap[id]],
                     methodName)
    ELSE Ended(Frame(methodName, id, args), "return", InvalidInstanceId)

\* the entry point genInstance(methodName) makes, up to its foreign call
genInstance(methodName, id, args) ==
    /\ CanCall
    /\ stack' = Append(stack, genInstanceEnter(methodName, id, args))
    /\ UNCHANGED <<frameworks, services, instanceMap, now, callerConfig,
                   configs, received>>
    /\ Observe

destroyInstance(id, args) == genInstance("destroyInstance", id, args)
refreshInstance(id, args) == genInstance("refreshInstance", id, args)
receiveTasks(id, args) == genInstance("receiveTasks", id, args)
getRoot(id, args) == genInstance("getRoot", id, args)

\* an alias that calls the backend's method of its own, native name
adaptInstanceEnter_nativeName(methodName, nativeMethodName, id, args) ==
    IF id \in DOMAIN instanceMap /\ instanceMap[id].framework \in FrameworkNames
    THEN LET f == [Frame(nativeMethodName, id, args) EXCEPT !.info = instanceMap[id]]
         IN  IF nativeMethodName \in Framework(f.info.framework).methods
             THEN Waiting(f, "backend", 0,
                          Event("backend", f.info.framework, nativeMethodName, id, args))
             ELSE Ended(f, "throw", TypeError)
    ELSE Ended(Frame(nativeMethodName, id, args), "return", InvalidInstanceId)

\* lines 146-151: the call, at its foreign call or ended
adaptInstanceEnter(methodName, nativeMethodName, id, args) ==
    IF id \in DOMAIN instanceMap /\ instanceMap[id].framework \in FrameworkNames
    THEN LET f == [Frame(nativeMethodName, id, args) EXCEPT !.info = instanceMap[id]]
         IN  IF methodName \in Framework(f.info.framework).methods
             THEN Waiting(f, "backend", 0,
                          Event("backend", f.info.framework, methodName, id, args))
             ELSE Ended(f, "throw", TypeError)
    ELSE Ended(Frame(nativeMethodName, id, args), "return", InvalidInstanceId)

\* the entry point adaptInstance(methodName, nativeMethodName) makes, up to
\* its foreign call
adaptInstance(methodName, nativeMethodName, id, args) ==
    /\ CanCall
    /\ stack' = Append(stack, adaptInstanceEnter(methodName, nativeMethodName, id, args))
    /\ UNCHANGED <<frameworks, services, instanceMap, now, callerConfig,
                   configs, received>>
    /\ Observe

callJS(id, args) == adaptInstance("receiveTasks", "callJS", id, args)

(* --------------------------- fan-out calls ----------------------------- *)
\* the elements of the first argument of registerComponents, each with the
\* fields it has; an element may be null
Components(args) ==
    IF args = "components"
    THEN << [null |-> FALSE, type |-> "Foo", methods |-> "bar"],
            [null |-> FALSE, type |-> "Baz", methods |-> Absent],
            [null |-> TRUE, type |-> Absent, methods |-> Absent],
            [null |-> FALSE, type |-> Absent, methods |-> "qux"],
            [null |-> FALSE, type |-> "Foo", methods |-> "baz"] >>
    ELSE <<>>

\* components.forEach(...): the registerElement calls, in order
RECURSIVE RegisterElements(_)
RegisterElements(components) ==
    IF components = <<>>
    THEN <<>>
    ELSE LET name == Head(components)
         IN  (IF ~name.null /\ name.type # Absent /\ name.methods # Absent
              THEN << [Event("element", name.type, "registerElement", Undefined,
                             name.methods) EXCEPT !.returned = <<Undefined>>] >>
              ELSE <<>>) \o RegisterElements(Tail(components))

\* a check that registers every element that has a type
checkComponentMethods_typeOnly(args) ==
    LET typed == SelectSeq(Components(args),
                           LAMBDA name : ~name.null /\ name.type # Absent)
    IN  [k \in DOMAIN typed |->
            [Event("element", typed[k].type, "registerElement", Undefined,
                   typed[k].methods) EXCEPT !.returned = <<Undefined>>]]

\* checkComponentMethods(components): nothing unless Array.isArray
checkComponentMethods(args) ==
    IF args \in ComponentArgs \ {"notArray"}
    THEN RegisterElements(Components(args))
    ELSE <<>>

\* lines 83-88: the backends from position `from` on
RunFanOut(base, f, from) ==
    LET j == NextFramework(from, f.method)
    IN  IF j = 0
        THEN Complete(base, f, "return", Undefined)
        \* framework[methodName](...args) throws when the method is not there
        ELSE IF f.method \in frameworks[j].methods
        THEN Suspend(base, f, "backend", j,
                     Event("backend", frameworks[j].name, f.method, f.id, f.args))
        ELSE Complete(base, f, "throw", TypeError)

\* the entry point genInit(methodName) makes, up to its first foreign call
genInit(methodName, args) ==
    /\ CanCall
    /\ LET f == [Frame(methodName, Undefined, args) EXCEPT
                    !.trace = IF methodName = "registerComponents"
                              THEN checkComponentMethods(args)
                              ELSE <<>>]
       IN  RunFanOut(stack, f, 1)
    /\ UNCHANGED <<frameworks, services, instanceMap, now, callerConfig,
                   configs, received>>
    /\ Observe

registerComponents(args) == genInit("registerComponents", args)
registerModules(args) == genInit("registerModules", args)
registerMethods(args) == genInit("registerMethods", args)

(* ------------------------ foreign code goes on ------------------------- *)
\* the service hook the innermost call waits for returns `result`
HookReturn(result) ==
    /\ Depth > 0
    /\ Top.pc = "hook"
    /\ IF Top.method = "createInstance"
       THEN /\ RunCreateHooks(Below,
                              [Given(Top, result) EXCEPT
                                  !.serviceObjects = Assign(@, result)],
                              Top.i + 1, Deref(Top.config))
            /\ UNCHANGED <<instanceMap, received, configs>>
       ELSE /\ result = EmptyObject
            /\ RunLifecycleHooks(Below, Given(Top, result), Top.i + 1)
    /\ UNCHANGED <<frameworks, services, now, callerConfig>>
    /\ Observe

\* the backend method the innermost call waits for returns `result`
BackendReturn(result) ==
    /\ Depth > 0
    /\ Top.pc = "backend"
    /\ IF Top.method \in InitMethods
       THEN /\ result = "ok"
            /\ RunFanOut(Below, Given(Top, result), Top.i + 1)
            /\ UNCHANGED <<instanceMap, received, configs>>
       ELSE IF Top.method \in InstanceMethods
       THEN AfterBackend(Below, Given(Top, result), result)
       ELSE /\ Complete(Below, Given(Top, result), "return", result)
            /\ UNCHANGED <<instanceMap, received, configs>>
    /\ UNCHANGED <<frameworks, services, now, callerConfig>>
    /\ Observe

\* the hook or backend method the innermost call waits for throws: nothing
\* in init.js catches it, the call ends by it
Throw ==
    /\ Depth > 0
    /\ Top.pc \in {"hook", "backend"}
    /\ Complete(Below, Given(Top, ForeignError), "throw", ForeignError)
    /\ UNCHANGED <<frameworks, services, instanceMap, now, callerConfig,
                   configs, received>>
    /\ Observe

\* the call that has ended hands its result to its caller, which goes on
Return ==
    /\ Depth > 0
    /\ Top.pc = "ended"
    /\ stack' = Below
    /\ configs' = Reachable(configs, stack', received)
    /\ UNCHANGED <<frameworks, services, instanceMap, now, callerConfig, received>>
    /\ Observe

\* the caller writes to its config object
MutateCallerConfig(value) ==
    /\ ForeignRunning
    /\ callerConfig.k # value
    /\ callerConfig' = [callerConfig EXCEPT !.k = value]
    /\ UNCHANGED <<frameworks, services, instanceMap, now, configs, received,
                   stack>>
    /\ Observe

\* the holder of an instance's config object (its backend, a service)
\* writes to it
MutateInstanceConfig(id, value) ==
    /\ ForeignRunning
    /\ received[id] # NoConfig
    /\ Deref(received[id]).k # value
    /\ IF received[id] = CallerRef
       THEN callerConfig' = [callerConfig EXCEPT !.k = value] /\ UNCHANGED configs
       ELSE configs' = [configs EXCEPT ![received[id]].k = value]
            /\ UNCHANGED callerConfig
    /\ UNCHANGED <<frameworks, services, instanceMap, now, received, stack>>
    /\ Observe

\* The host delivers the calls one at a time: each runs to completion
\* before the next is processed.
Next ==
    \/ Depth = 0 /\ \E id \in Ids, code \in Bundles : createInstance(id, code, CallerRef)
    \/ Depth = 0 /\ \E id \in Ids, args \in Args : destroyInstance(id, args)
    \/ Depth = 0 /\ \E id \in Ids, args \in Args : refreshInstance(id, args)
    \/ Depth = 0 /\ \E id \in Ids, args \in Args : receiveTasks(id, args)
    \/ Depth = 0 /\ \E id \in Ids, args \in Args : getRoot(id, args)
    \/ Depth = 0 /\ \E id \in Ids, args \in Args : callJS(id, args)
    \/ Depth = 0 /\ \E args \in ComponentArgs : registerComponents(args)
    \/ Depth = 0 /\ \E args \in Args : registerModules(args)
    \/ Depth = 0 /\ \E args \in Args : registerMethods(args)
    \/ \E result \in HookResults : HookReturn(result)
    \/ \E result \in BackendResults : BackendReturn(result)
    \/ Throw
    \/ Return

Spec == Init /\ [][Next]_vars

ConfigBundles == { <<"//", "sp", "{rax}", "nl", "txt">>, <<"//", "{bad}", "nl", "txt">> }

\* Creation and destruction alone, createInstance with and without a config
\* argument, and the holders of the config objects write to them.
NextConfig ==
    \/ Depth = 0 /\ \E id \in Ids, code \in ConfigBundles, config \in {NoConfig, CallerRef} :
                       createInstance(id, code, config)
    \/ Depth = 0 /\ \E id \in Ids : destroyInstance(id, "a1")
    \/ HookReturn(EmptyObject)
    \/ BackendReturn("ok")
    \/ Throw
    \/ Return
    \/ \E value \in ConfigValues \cup {Undefined} : MutateCallerConfig(value)
    \/ \E id \in Ids, value \in ConfigValues : MutateInstanceConfig(id, value)

SpecConfig == Init /\ [][NextConfig]_vars


\* Hooks and backend methods call back into the method table before they
\* return, to the depth MaxDepth.
InitReentrant ==
    /\ Init
    /\ Len(frameworks) = 2
    /\ frameworks[1].name = "Weex"
    /\ Len(services) = 3

ReentrantBundles == { <<"//", "sp", "{rax}", "nl", "txt">>, <<"txt">> }

NextReentrant ==
    \/ \E code \in ReentrantBundles : createInstance("1", code, CallerRef)
    \/ destroyInstance("1", "a1")
    \/ refreshInstance("1", "a1")
    \/ HookReturn(EmptyObject)
    \/ BackendReturn("ok")
    \/ Throw
    \/ Return

SpecReentrant == InitReentrant /\ [][NextReentrant]_vars

\* The version detector on every bundle text of at most MaxLen lexemes:
\* one instance is created, with any such text.
DetectorLexemes == {"sp", "tab", "nl", "//", "txt", "{rax}", "{bad}"}
DetectorBundles == UNION {[1..n -> DetectorLexemes] : n \in 0..MaxLen}

InitDetector ==
    /\ Init
    /\ Len(frameworks) = 2
    /\ frameworks[1].name = "Weex"
    /\ Len(services) = 1

NextDetector ==
    \/ Depth = 0 /\ \E code \in DetectorBundles : createInstance("1", code, NoConfig)
    \/ BackendReturn("ok")
    \/ Throw
    \/ Return

SpecDetector == InitDetector /\ [][NextDetector]_vars

(* ------------------------------- claims -------------------------------- *)
\* this step enters a public call; NewTop is the call, as the step leaves it
Entering == Len(stack') = Len(stack) + 1
NewTop == stack'[Len(stack')]
\* the innermost call has ended and not yet handed its result back
EndedCall == Depth > 0 /\ Top.pc = "ended"

\* the services whose options hold `hook`, in registration order
ServicesWith(hook) == SelectSeq(services, LAMBDA service : hook \in service.options)
\* the backends that implement `methodName`, in enumeration order
FrameworksWith(methodName) ==
    SelectSeq(frameworks, LAMBDA framework : methodName \in framework.methods)
Names(seq) == [k \in DOMAIN seq |-> seq[k].name]
\* the events of a kind in a trace, and whom they called
EventsOf(trace, kind) == SelectSeq(trace, LAMBDA event : event.kind = kind)
Targets(events) == [k \in DOMAIN events |-> events[k].target]

\* C1: createInstance for an id that has a record returns the
\* InvalidInstanceId error value without throwing, calls no service hook and
\* no backend, and leaves the registry, with the record of the id, as it was.
C1_DuplicateCreateRejected ==
    [][ (Entering /\ NewTop.method = "createInstance"
                  /\ NewTop.id \in DOMAIN instanceMap)
        => /\ NewTop.pc = "ended"
           /\ NewTop.outcome = "return"
           /\ NewTop.result = InvalidInstanceId
           /\ NewTop.trace = <<>>
           /\ instanceMap' = instanceMap ]_vars

\* a second createInstance for a live id has just been rejected
C1_Witness ==
    /\ EndedCall
    /\ Top.method = "createInstance"
    /\ Top.id \in DOMAIN Top.pre
    /\ Top.pre[Top.id].framework \in FrameworkNames
    /\ Top.result = InvalidInstanceId

\* C2: destroyInstance, refreshInstance, receiveTasks, getRoot and callJS
\* for an id that has no record return the InvalidInstanceId error value,
\* call no backend and no service hook, and leave the registry as it was.
C2_UnknownIdRejected ==
    [][ (Entering /\ NewTop.method \in InstanceMethods \cup {"callJS"}
                  /\ NewTop.id \notin DOMAIN instanceMap)
        => /\ NewTop.pc = "ended"
           /\ NewTop.outcome = "return"
           /\ NewTop.result = InvalidInstanceId
           /\ NewTop.trace = <<>>
           /\ instanceMap' = instanceMap ]_vars

\* a routed call for an id that was created and destroyed has just been
\* rejected
C2_Witness ==
    /\ EndedCall
    /\ Top.method \in InstanceMethods \cup {"callJS"}
    /\ Top.id \notin DOMAIN instanceMap
    /\ now > 0
    /\ instanceMap = [i \in {} |-> 0]
    /\ Top.result = InvalidInstanceId

\* C3: when a destroyInstance call for an id that had a record has ended,
\* the registry holds no record of the id, however the backend's
\* destroyInstance went.
C3_DestroyAlwaysRemoves ==
    (EndedCall /\ Top.method = "destroyInstance" /\ Top.id \in DOMAIN Top.pre)
    => Top.id \notin DOMAIN instanceMap

\* C4: when a refreshInstance or destroyInstance call for an id that had a
\* record has ended, it has called the backend's method and then the hook of
\* every service that has one, once each, in registration order, however
\* the backend's method went.
C4_LifecycleHooksAlwaysRun ==
    (EndedCall /\ Top.method \in {"refreshInstance", "destroyInstance"}
               /\ Top.id \in DOMAIN Top.pre)
    => /\ Top.trace # <<>>
       /\ Top.trace[1].kind = "backend"
       /\ Top.trace[1].method = Top.method
       /\ Targets(Tail(Top.trace)) = Names(ServicesWith(LifecycleHook(Top.method)))
       /\ \A k \in 2..Len(Top.trace) :
             /\ Top.trace[k].kind = "hook"
             /\ Top.trace[k].method = LifecycleHook(Top.method)

\* the whole create sequence was run: record, every create hook, backend
FullCreate(f) ==
    /\ f.id \in DOMAIN instanceMap
    /\ Targets(EventsOf(f.trace, "hook")) = Names(ServicesWith("create"))
    /\ f.trace # <<>>
    /\ f.trace[Len(f.trace)].kind = "backend"
    /\ f.trace[Len(f.trace)].method = "createInstance"

\* C5: when a createInstance call has ended, by return or by throw, either
\* the record is in the registry and every create hook and the backend's
\* createInstance were called, or the registry is as it was before the call.
C5_CreateAllOrNothing ==
    (EndedCall /\ Top.method = "createInstance")
    => (FullCreate(Top) \/ instanceMap = Top.pre)

\* C6: every record of the registry names a backend of the framework set
\* given to init.
C6_BackendAlwaysRegistered ==
    \A id \in DOMAIN instanceMap : instanceMap[id].framework \in FrameworkNames


\* the record and the bundleVersion the claim C7 gives a bundle
DescribedBackend(code) ==
    IF checkVersion(code).detected /\ checkVersion(code).framework \in FrameworkNames
    THEN checkVersion(code).framework
    ELSE "Weex"
DescribedVersion(code) ==
    IF checkVersion(code).detected THEN checkVersion(code).version ELSE Undefined
\* the bundle has a descriptor line whose JSON does not parse
Malformed(code) ==
    versionRegExp(code) # Absent /\ JSONparse(versionRegExp(code)).threw

DerefNext(ref) == IF ref = CallerRef THEN callerConfig' ELSE configs'[ref]

\* C8: createInstance leaves the caller's config object as it is and hands
\* out a new object, with the caller's JSON content and the two injected
\* fields; a later write to the caller's object does not change the object
\* an instance received, and a write to that object does not change the
\* caller's.
C8_ConfigCopied ==
    [][ /\ (Entering /\ NewTop.method = "createInstance")
           => callerConfig' = callerConfig
        /\ (Entering /\ NewTop.method = "createInstance"
                     /\ NewTop.id \notin DOMAIN instanceMap)
           => /\ NewTop.config \notin {NoConfig, CallerRef}
              /\ NewTop.config \notin DOMAIN configs
              /\ received'[NewTop.id] = NewTop.config
              /\ configs'[NewTop.config].k =
                    (IF NewTop.args = "noConfig" \/ callerConfig.k = Undefined
                     THEN Absent ELSE callerConfig.k)
              /\ \A k \in DOMAIN NewTop.trace :
                    NewTop.trace[k].config = NewTop.config
        /\ \A id \in Ids :
              (received[id] # NoConfig /\ received'[id] = received[id])
              => /\ callerConfig' # callerConfig
                       => DerefNext(received[id]) = Deref(received[id])
                 /\ DerefNext(received[id]) # Deref(received[id])
                       => callerConfig' = callerConfig ]_vars

\* an instance holds the value the caller's object had when it was created,
\* the caller's object holds another, and a second instance a third
C8_Witness ==
    /\ received["1"] \notin {NoConfig, CallerRef}
    /\ received["2"] \notin {NoConfig, CallerRef}
    /\ configs[received["1"]].k = "v1"
    /\ configs[received["2"]].k = Absent
    /\ callerConfig.k = "v2"

\* C9: callJS(id, ...) does what receiveTasks(id, ...) does: in every state
\* it enters as receiveTasks enters (the same backend call with the same
\* arguments, or the same InvalidInstanceId), and when the backend returns
\* or throws both end with the backend's result or exception, without a
\* service hook; neither changes the registry.
C9_CallJSIsReceiveTasks ==
    [][ /\ (Entering /\ NewTop.method = "callJS")
           => /\ NewTop = [genInstanceEnter("receiveTasks", NewTop.id, NewTop.args)
                              EXCEPT !.method = "callJS"]
              /\ NewTop.id \in DOMAIN instanceMap /\ NewTop.pc = "backend"
                    => /\ Len(NewTop.trace) = 1
                       /\ NewTop.trace[1].target = instanceMap[NewTop.id].framework
                       /\ NewTop.trace[1].method = "receiveTasks"
                       /\ NewTop.trace[1].args = NewTop.args
              /\ instanceMap' = instanceMap
        /\ \A m \in {"callJS", "receiveTasks"} :
              (Depth > 0 /\ Top.method = m /\ Top.pc = "backend" /\ stack' # stack)
              => /\ Len(stack') = Len(stack)
                 /\ NewTop.pc = "ended"
                 /\ Len(NewTop.trace) = 1
                 /\ NewTop.trace[1].kind = "backend"
                 /\ NewTop.trace[1].returned = <<NewTop.result>>
                 /\ NewTop.outcome = IF NewTop.result = ForeignError
                                     THEN "throw" ELSE "return"
                 /\ instanceMap' = instanceMap ]_vars

\* callJS has returned the error value its backend's receiveTasks returned
C9_Witness ==
    /\ EndedCall
    /\ Top.method = "callJS"
    /\ Top.outcome = "return"
    /\ Top.result = "err"
    /\ Top.trace[1].method = "receiveTasks"

\* C10 as stated: when a registerComponents, registerModules or
\* registerMethods call has ended, it has called the same-named method once,
\* with its arguments, on every backend that implements it and on no other,
\* and no backend's lack of the method has raised an error.
C10_FanOutReachesAll ==
    (EndedCall /\ Top.method \in InitMethods)
    => /\ Targets(EventsOf(Top.trace, "backend")) = Names(FrameworksWith(Top.method))
       /\ \A k \in DOMAIN Top.trace :
             Top.trace[k].kind = "backend"
             => Top.trace[k].method = Top.method /\ Top.trace[k].args = Top.args
       /\ Top.result # TypeError

\* C10, amended: the call goes through the backends that implement the
\* method in enumeration order, calling the same-named method once on each
\* with its arguments and nothing on a backend that lacks it, until one
\* throws; that exception ends the call.  A call that returns has called
\* every backend that implements the method; no lack of the method raises
\* an error.
C10_FanOutUntilThrow ==
    (Depth > 0 /\ Top.method \in InitMethods)
    => LET called == Targets(EventsOf(Top.trace, "backend"))
           all == Names(FrameworksWith(Top.method))
       IN  /\ Len(called) <= Len(all)
           /\ called = SubSeq(all, 1, Len(called))
           /\ \A k \in DOMAIN Top.trace :
                 Top.trace[k].kind = "backend"
                 => /\ Top.trace[k].method = Top.method
                    /\ Top.trace[k].args = Top.args
                    /\ k < Len(Top.trace) => Top.trace[k].returned = <<"ok">>
           /\ (Top.pc = "ended" /\ Top.outcome = "return") => called = all
           /\ (Top.pc = "ended" /\ Top.outcome = "throw")
                 => /\ Top.result = ForeignError
                    /\ called # <<>>
                    /\ Top.trace[Len(Top.trace)].returned = <<ForeignError>>

\* registerModules has returned after calling "Weex" alone, "Rax" lacking
\* the method
C10_Witness ==
    /\ EndedCall
    /\ Top.method = "registerModules"
    /\ Top.outcome = "return"
    /\ Len(frameworks) = 2
    /\ Targets(EventsOf(Top.trace, "backend")) = <<"Weex">>

\* the elements of a registerComponents argument that have a type and
\* methods, as <<type, methods>>, in the argument's order
Registrable(args) ==
    LET both == SelectSeq(Components(args),
                          LAMBDA name : /\ ~name.null
                                        /\ name.type # Absent
                                        /\ name.methods # Absent)
    IN  [k \in DOMAIN both |-> <<both[k].type, both[k].methods>>]

\* C11: a registerComponents call has called registerElement(type, methods)
\* once for each element of an array first argument that has a type and
\* methods, in order, and all of that before it calls any backend; an
\* element without one of them, a null element and a first argument that is
\* not an array give no registerElement call and no error, and the backends
\* are called all the same; registerModules and registerMethods call no
\* registerElement.
C11_RegisterElementBeforeFanOut ==
    (Depth > 0 /\ Top.method \in InitMethods)
    => LET elements == EventsOf(Top.trace, "element")
           n == Len(elements)
       IN  /\ [k \in DOMAIN elements |-> <<elements[k].target, elements[k].args>>]
                 = (IF Top.method = "registerComponents"
                    THEN Registrable(Top.args) ELSE <<>>)
           /\ \A k \in DOMAIN Top.trace :
                 (Top.trace[k].kind = "element") <=> (k <= n)
           /\ Top.pc \in {"backend", "ended"}
           /\ Top.pc = "backend" => Len(Top.trace) > n
           /\ (Top.pc = "ended" /\ Top.outcome = "throw")
                 => /\ Len(Top.trace) > n
                    /\ Top.trace[Len(Top.trace)].returned = <<ForeignError>>
           /\ (Top.pc = "ended" /\ Top.outcome = "return")
                 => Len(Top.trace) = n + Len(FrameworksWith(Top.method))

\* registerComponents has registered "bar" and "baz" for "Foo", nothing for
\* the three other elements, and is calling its first backend
C11_Witness ==
    /\ Depth > 0
    /\ Top.method = "registerComponents"
    /\ Top.args = "components"
    /\ Top.pc = "backend"
    /\ Len(Top.trace) = 3
    /\ Top.trace[2].args = "baz"

\* registerComponents with a first argument that is no array has returned
\* after calling every backend
C11_WitnessNotArray ==
    /\ EndedCall
    /\ Top.method = "registerComponents"
    /\ Top.args = "notArray"
    /\ Top.outcome = "return"
    /\ Len(Top.trace) = Len(frameworks)

\* the createInstance calls for `id` that wait for a hook or the backend
\* while the record they inserted is in the registry
CreatingWithRecord(id) ==
    {d \in DOMAIN stack : /\ stack[d].method = "createInstance"
                          /\ stack[d].id = id
                          /\ stack[d].pc \in {"hook", "backend"}
                          /\ id \in DOMAIN instanceMap
                          /\ instanceMap[id] = stack[d].info}

C12_WitnessBackend ==
    /\ Depth = 2
    /\ stack[1].method = "createInstance"
    /\ stack[1].pc = "backend"
    /\ Top.method = "createInstance"
    /\ Top.id = stack[1].id
    /\ Top.result = InvalidInstanceId

\* C13: while a destroyInstance call for an id that had a record of a
\* registered backend waits for the backend or for a destroy hook, the record is in the registry as the
\* call found it; and when the call has ended, after the last destroy hook
\* or by a failure of the backend or of a hook, the record is removed.
C13_RemovedAfterHooksWhateverFailed ==
    (Depth > 0 /\ Top.method = "destroyInstance" /\ Top.id \in DOMAIN Top.pre
               /\ Top.pre[Top.id].framework \in FrameworkNames)
    => /\ Top.pc \in {"backend", "hook"}
             => /\ Top.id \in DOMAIN instanceMap
                /\ instanceMap[Top.id] = Top.pre[Top.id]
       /\ (Top.pc = "hook" /\ Top.trace # <<>>)
             => Top.trace[Len(Top.trace)].info = instanceMap[Top.id]
       /\ Top.pc = "ended" => Top.id \notin DOMAIN instanceMap

\* C14: for every id the backends' createInstance and destroyInstance calls
\* alternate, createInstance first: a backend is called with createInstance
\* for an id only when the last of the two for the id was not createInstance,
\* and with destroyInstance only when the last was createInstance.
C14_CreateDestroyAlternate ==
    [][ (BackendCalled /\ NewTop.method \in {"createInstance", "destroyInstance"})
        => IF NewTop.method = "createInstance"
           THEN lastLifecycle[NewTop.id] # "createInstance"
           ELSE lastLifecycle[NewTop.id] = "createInstance" ]_vars

\* C15: a destroyInstance, refreshInstance, receiveTasks, getRoot or callJS
\* call for an id that has a record calls its method on one backend, the
\* backend the record names, and on no other (a backend that lacks the
\* method fails the call there); createInstance calls the backend the record
\* names; and the backend a record names does not change while the record is
\* in the registry.
C15_OneBoundBackend ==
    [][ /\ (Entering /\ NewTop.method \in InstanceMethods \cup {"callJS"}
                     /\ NewTop.id \in DOMAIN instanceMap)
           => LET bound == instanceMap[NewTop.id].framework
                  methodName == IF NewTop.method = "callJS"
                                THEN "receiveTasks" ELSE NewTop.method
              IN  \/ /\ NewTop.pc = "backend"
                     /\ Len(NewTop.trace) = 1
                     /\ NewTop.trace[1].kind = "backend"
                     /\ NewTop.trace[1].target = bound
                     /\ NewTop.trace[1].method = methodName
                     /\ NewTop.trace[1].id = NewTop.id
                  \/ /\ NewTop.pc = "ended"
                     /\ NewTop.result = TypeError
                     /\ NewTop.trace = <<>>
                     /\ bound \in FrameworkNames
                     /\ ~HasMethod(bound, methodName)
        /\ (BackendCalled /\ NewTop.method \in InstanceMethods \cup {"callJS", "createInstance"})
           => /\ \A k \in DOMAIN NewTop.trace :
                    NewTop.trace[k].kind = "backend" => k = Len(NewTop.trace)
              /\ NewTop.id \in DOMAIN instanceMap'
              /\ NewTop.trace[Len(NewTop.trace)].target = instanceMap'[NewTop.id].framework
        /\ \A id \in DOMAIN instanceMap \cap DOMAIN instanceMap' :
              instanceMap'[id].created = instanceMap[id].created
              => instanceMap'[id].framework = instanceMap[id].framework ]_vars

\* C16: a step changes the registry only by entering createInstance for a
\* fresh id, which adds the record of that id, or by completing a
\* destroyInstance call, which removes the record of its id; both leave the
\* records of the other ids as they are.  No step of refreshInstance,
\* receiveTasks, getRoot, callJS, registerComponents, registerModules or
\* registerMethods, no rejected createInstance and no call for an id
\* without record changes the registry.
C16_RegistryFrame ==
    [][ /\ instanceMap' # instanceMap
           => \/ /\ Entering
                 /\ NewTop.method = "createInstance"
                 /\ NewTop.id \notin DOMAIN instanceMap
                 /\ DOMAIN instanceMap' = DOMAIN instanceMap \cup {NewTop.id}
                 /\ \A j \in DOMAIN instanceMap : instanceMap'[j] = instanceMap[j]
              \/ /\ Depth > 0
                 /\ Len(stack') = Len(stack)
                 /\ Top.method = "destroyInstance"
                 /\ NewTop.pc = "ended"
                 /\ Top.id \in DOMAIN instanceMap
                 /\ DOMAIN instanceMap' = DOMAIN instanceMap \ {Top.id}
                 /\ \A j \in DOMAIN instanceMap' : instanceMap'[j] = instanceMap[j]
        /\ (Len(stack') >= Len(stack) /\ stack' # stack
               /\ \/ NewTop.method \notin {"createInstance", "destroyInstance"}
                  \/ NewTop.result = InvalidInstanceId)
           => /\ instanceMap' = instanceMap
              /\ instanceMap' = NewTop.pre ]_vars

\* destroyInstance has removed the record of its id and left the record of
\* the other id
C16_Witness ==
    /\ EndedCall
    /\ Top.method = "destroyInstance"
    /\ DOMAIN Top.pre = Ids
    /\ DOMAIN instanceMap = Ids \ {Top.id}
    /\ \A j \in DOMAIN instanceMap : instanceMap[j] = Top.pre[j]

\* the merge of a sequence of returned objects: each key with the value of
\* the last object that has it
MergeOf(results) ==
    LET keys == UNION {DOMAIN results[k] : k \in DOMAIN results}
        last(key) == CHOOSE k \in DOMAIN results :
                        /\ key \in DOMAIN results[k]
                        /\ \A l \in DOMAIN results : key \in DOMAIN results[l] => l <= k
    IN  [key \in keys |-> results[last(key)][key]]

\* C17: in a createInstance call for a fresh id the create hooks called so
\* far are the first services that have one, once each in registration
\* order; the backend's createInstance is called once, after every service
\* that has a create hook had it called and returned, with the merge of what
\* the hooks returned, in that order, a later value replacing an earlier one
\* of the same key and an empty return adding nothing; and a call that
\* returns returns what the backend's createInstance returned.
C17_HooksThenBackend ==
    (Depth > 0 /\ Top.method = "createInstance" /\ Top.id \notin DOMAIN Top.pre)
    => LET hooks == EventsOf(Top.trace, "hook")
           backends == EventsOf(Top.trace, "backend")
           all == Names(ServicesWith("create"))
           last == Top.trace[Len(Top.trace)]
       IN  /\ Len(hooks) <= Len(all)
           /\ Targets(hooks) = SubSeq(all, 1, Len(hooks))
           /\ \A k \in DOMAIN hooks : hooks[k].method = "create" /\ hooks[k].id = Top.id
           /\ Len(hooks) + Len(backends) = Len(Top.trace)
           /\ Len(backends) <= 1
           /\ backends # <<>>
                 => /\ last.kind = "backend"
                    /\ last.method = "createInstance"
                    /\ last.id = Top.id
                    /\ Targets(hooks) = all
                    /\ \A k \in DOMAIN hooks :
                          Len(hooks[k].returned) = 1 /\ hooks[k].returned[1] \in HookResults
                    /\ last.serviceObjects
                          = MergeOf([k \in DOMAIN hooks |-> hooks[k].returned[1]])
           /\ (Top.pc = "ended" /\ Top.outcome = "return")
                 => /\ backends # <<>>
                    /\ last.returned = <<Top.result>>
                    /\ Top.result \in BackendResults

\* createInstance has returned the backend's error value; its two create
\* hooks returned {a: 2, b: 1} and then {a: 1}, and the backend got
\* {a: 1, b: 1}
C17_Witness ==
    /\ EndedCall
    /\ Top.method = "createInstance"
    /\ Top.outcome = "return"
    /\ Top.result = "err"
    /\ Len(Top.trace) = 3
    /\ Top.trace[1].returned = <<[a |-> 2, b |-> 1]>>
    /\ Top.trace[2].returned = <<[a |-> 1]>>
    /\ Top.trace[3].serviceObjects = [a |-> 1, b |-> 1]

\* the lexemes of `code` before its first line end, and whether it has one
FirstLine(code) ==
    SubSeq(code, 1, SkipWhile(code, 1, Lexemes \ {"nl"}) - 1)
HasLineEnd(code) == \E i \in DOMAIN code : code[i] = "nl"
\* `code` without its leading white space, line ends included
TrimStart(code) ==
    SubSeq(code, SkipWhile(code, 1, {"sp", "tab", "nl"}), Len(code))
\* the JSON text of a line that is a comment with one brace text, spaces
\* around it at most; Absent for any other line
CommentJson(line) ==
    LET body == SubSeq(line, SkipWhile(line, 1, {"sp", "tab"}), Len(line))
        rest == SelectSeq(body, LAMBDA lexeme : lexeme # "sp")
    IN  IF Len(body) >= 2 /\ body[1] = "//" /\ Len(rest) = 2 /\ rest[2] \in JsonTexts
        THEN rest[2]
        ELSE Absent
\* the descriptor a line gives when the line is ended: that of its JSON
\* text when it is a JSON comment that parses, none otherwise
LineDescriptor(code) ==
    LET json == CommentJson(FirstLine(code))
    IN  IF HasLineEnd(code) /\ json # Absent /\ ~JSONparse(json).threw
        THEN [detected |-> TRUE, framework |-> JSONparse(json).framework,
              version |-> JSONparse(json).version]
        ELSE NoDescriptor

C19_IdReusable ==
    [][ (Entering /\ NewTop.method = "createInstance"
                  /\ NewTop.id \notin DOMAIN instanceMap
                  /\ lastLifecycle[NewTop.id] = "destroyInstance")
        => /\ NewTop.id \in DOMAIN instanceMap'
           /\ instanceMap'[NewTop.id] =
                 [framework |-> DescribedBackend(NewTop.code),
                  version |-> DescribedVersion(NewTop.code),
                  created |-> now + 1]
           /\ NewTop.info = instanceMap'[NewTop.id]
           /\ received'[NewTop.id] \notin {NoConfig, CallerRef}
           /\ NewTop.result # InvalidInstanceId
           /\ IF ServicesWith("create") # <<>>
              THEN /\ NewTop.pc = "hook"
                   /\ Len(NewTop.trace) = 1
                   /\ NewTop.trace[1].target = ServicesWith("create")[1].name
                   /\ NewTop.trace[1].info = instanceMap'[NewTop.id]
              ELSE IF HasMethod(DescribedBackend(NewTop.code), "createInstance")
              THEN /\ NewTop.pc = "backend"
                   /\ Len(NewTop.trace) = 1
                   /\ NewTop.trace[1].target = DescribedBackend(NewTop.code)
                   /\ NewTop.trace[1].bundleVersion = DescribedVersion(NewTop.code)
              ELSE NewTop.result = TypeError ]_vars

\* an id that was created and destroyed is created again, as "Weex" with
\* version 2.0, and its first create hook runs
C19_Witness ==
    /\ Depth > 0
    /\ Top.method = "createInstance"
    /\ Top.pc = "hook"
    /\ lastLifecycle[Top.id] = "destroyInstance"
    /\ Top.id \notin DOMAIN Top.pre
    /\ instanceMap[Top.id].framework = "Weex"
    /\ instanceMap[Top.id].version = "2.0"
    /\ instanceMap[Top.id].created > 1

\* the id has a record that names a backend outside the framework set
Orphan(id) ==
    id \in DOMAIN instanceMap /\ instanceMap[id].framework \notin FrameworkNames

\* C20: createInstance for a fresh id whose bundle gives no registered
\* backend, "Weex" not being registered, puts the record in the registry,
\* runs the create hooks and then fails; the record is never removed, and
\* every later createInstance, destroyInstance, refreshInstance,
\* receiveTasks, getRoot and callJS for the id returns InvalidInstanceId
\* without calling a backend or a service hook.
C20_OrphanRecordStays ==
    [][ /\ (Entering /\ NewTop.method = "createInstance"
                     /\ NewTop.id \notin DOMAIN instanceMap
                     /\ DescribedBackend(NewTop.code) \notin FrameworkNames)
           => /\ NewTop.id \in DOMAIN instanceMap'
              /\ instanceMap'[NewTop.id].framework = "Weex"
              /\ NewTop.pc = "ended" => NewTop.result = TypeError
        /\ (Len(stack') > 0 /\ NewTop.method = "createInstance"
               /\ NewTop.id \notin DOMAIN NewTop.pre
               /\ NewTop.info.framework \notin FrameworkNames)
           => /\ EventsOf(NewTop.trace, "backend") = <<>>
              /\ NewTop.pc = "ended"
                    => /\ NewTop.outcome = "throw"
                       /\ NewTop.id \in DOMAIN instanceMap'
                       /\ NewTop.result = TypeError
                             => /\ Targets(NewTop.trace) = Names(ServicesWith("create"))
                                /\ \A k \in DOMAIN NewTop.trace :
                                      Len(NewTop.trace[k].returned) = 1
        /\ \A id \in Ids :
              Orphan(id)
              => /\ id \in DOMAIN instanceMap'
                 /\ instanceMap'[id] = instanceMap[id]
        /\ (Entering /\ NewTop.method \in InstanceMethods \cup {"callJS", "createInstance"}
                     /\ Orphan(NewTop.id))
           => /\ NewTop.pc = "ended"
              /\ NewTop.outcome = "return"
              /\ NewTop.result = InvalidInstanceId
              /\ NewTop.trace = <<>>
              /\ instanceMap' = instanceMap ]_vars

\* after a creation that fell back to the unregistered "Weex", a
\* destroyInstance for the id has been rejected and the record is there
C20_Witness ==
    /\ EndedCall
    /\ Top.method = "destroyInstance"
    /\ Orphan(Top.id)
    /\ instanceMap[Top.id].framework = "Weex"
    /\ Top.result = InvalidInstanceId
    /\ Top.trace = <<>>

====
